---- MODULE Spec2Model ----
(***************************************************************************)
(* The command-expansion loop of crater, src/bmk.rs: run(state, cmd) keeps *)
(* a LIFO vector of pending commands, round-trips every popped command     *)
(* through to_args/from_args, processes it against the state and pushes    *)
(* the follow-up commands it returns in reverse order.                     *)
(*                                                                         *)
(* The traits Process and Arguable are implemented by the caller.  Their   *)
(* implementation is drawn in Init: `follow` is the list of follow-ups     *)
(* process returns for each command, and `quirk` makes at most one command *)
(* misbehave (from_args rejects its tokens, to_args writes the tokens of   *)
(* another command, process fails, or process leaves the state alone).     *)
(***************************************************************************)
EXTENDS Integers, Sequences, FiniteSets, TLC

\* The command type C: four values, named as in the ordering example.
Names == <<"A", "B", "C", "D">>
Cmds == {Names[i] : i \in 1..Len(Names)}
Index(c) == CHOOSE i \in 1..Len(Names) : Names[i] = c

\* Longest follow-up list a single process call returns.
MaxFollow == 2

\* Total number of follow-ups over all commands of one implementation.
MaxEdges == 4

\* The same, where the state run is called with is drawn too.
MaxEdgesAnyState == 2

VARIABLES
    state0,   \* run: the state argument it was called with
    follow,   \* Process::process: the follow-ups each command returns
    quirk,    \* the one command of the implementation that misbehaves, if any
    cmds,     \* run: `let mut cmds`, last element is the next one popped
    state,    \* run: `mut state`
    pc,       \* position of run: "loop" or "returned"
    result,   \* what run returned: Result<S>
    calls,    \* history: every trait call run has made, in order
    tags,     \* history: for each element of cmds, the node it is
    parent,   \* history: parent[n] is the node whose execution emitted n
    done,     \* history: the nodes executed so far, in order
    nest,     \* the command whose process calls run itself, if any
    frames,   \* the calls of run that wait inside a process call, outermost first
    wenv,     \* workspace.rs: the platform and what the system calls of init do
    wb,       \* the WorkspaceBuilder, "none" when there is none
    ws,       \* what WorkspaceBuilder::init returned: Result<Workspace, Error>
    wlog      \* history: the builder calls and the calls init has made, in order

\* The variables of run and those of the workspace builder.
evars == <<state0, follow, quirk, cmds, state, pc, result, calls, tags, parent, done,
           nest, frames>>
wvars == <<wenv, wb, ws, wlog>>

vars == <<evars, wvars>>

----------------------------------------------------------------------------
(* Sequences *)

RECURSIVE SeqsUpTo(_)
SeqsUpTo(n) ==
    IF n = 0 THEN {<<>>}
    ELSE LET shorter == SeqsUpTo(n - 1)
         IN  shorter \cup {Append(s, c) : s \in {t \in shorter : Len(t) = n - 1}, c \in Cmds}

Min(a, b) == IF a < b THEN a ELSE b

\* new_cmds.into_iter().rev()
rev(s) == [i \in 1..Len(s) |-> s[Len(s) + 1 - i]]

Range(s) == {s[i] : i \in 1..Len(s)}

----------------------------------------------------------------------------
(* The caller's implementation of Arguable and Process *)

NoQuirk == [kind |-> "none"]

\* A process that calls run(InitState, inner) before it returns, or none.
NoNest == [kind |-> "none"]
Nests == {[kind |-> "nest", cmd |-> c, inner |-> d] : c \in Cmds, d \in Cmds}
Nesting(c) == nest.kind = "nest" /\ nest.cmd = c

Quirks ==
    {NoQuirk}
    \cup {[kind |-> k, cmd |-> c] : k \in {"bad_args", "fails", "noop"}, c \in Cmds}
    \cup {[kind |-> "lossy", cmd |-> p[1], to |-> p[2]] :
              p \in {q \in Cmds \X Cmds : q[1] # q[2]}}

\* Arguable::to_args: the tokens written for command c.
to_args(c) ==
    IF quirk.kind = "lossy" /\ quirk.cmd = c THEN <<"cmd", quirk.to>>
    ELSE <<"cmd", c>>

ArgsError(args) == [from |-> "from_args", args |-> args]
ProcessError(c) == [from |-> "process", cmd |-> c]

\* Arguable::from_args: the command parsed from the tokens, or a parse error.
from_args(args) ==
    IF Len(args) = 2 /\ args[1] = "cmd" /\ args[2] \in Cmds
       /\ ~(quirk.kind = "bad_args" /\ quirk.cmd = args[2])
    THEN [ok |-> TRUE, cmd |-> args[2]]
    ELSE [ok |-> FALSE, err |-> ArgsError(args)]

\* Process::process: the new state and the follow-ups, or an error.
process(c, s) ==
    IF quirk.kind = "fails" /\ quirk.cmd = c
    THEN [ok |-> FALSE, err |-> ProcessError(c)]
    ELSE [ok |-> TRUE,
          state |-> IF quirk.kind = "noop" /\ quirk.cmd = c THEN s ELSE Append(s, c),
          new_cmds |-> follow[c]]

----------------------------------------------------------------------------
(* run *)

\* The command run is called with.
InitCmd == "A"

\* The states run may be called with: the state type S is a log of the
\* commands that have changed it, empty or with an entry from earlier work.
InitStates == {<<>>, <<"D">>, <<"A", "A">>}

\* The state run is called with.
InitState == state0

\* Slip: the oldest command is taken instead of the newest.
PopFront(q) == 1

\* cmds.pop(): the index of the element taken.
PopIndex(q) == Len(q)

\* Slip: the command is read but stays in the queue.
RemoveNothing(q, i) == q

\* cmds.pop(): the queue without the element taken.
Remove(q, i) == [j \in 1..(Len(q) - 1) |-> IF j < i THEN q[j] ELSE q[j + 1]]

\* Slip: the follow-ups are pushed in their declared order.
ExtendForward(q, new) == q \o new

\* Slip: the follow-ups are put beneath the commands already queued.
ExtendBottom(q, new) == rev(new) \o q

\* Slip: the first follow-up is left out.
ExtendLosesOne(q, new) == q \o rev(IF new = <<>> THEN new ELSE Tail(new))

\* cmds.extend(new_cmds.into_iter().rev())
Extend(q, new) == q \o rev(new)

\* Slip: the cause is replaced by an error of the engine's own.
PropagateReplaced(e) == [from |-> "run"]

\* The `?` operator on the error of a trait call: returned as it is.
Propagate(e) == e

\* The round trip of a popped command: to_args, then from_args.
RoundTrip(c) == from_args(to_args(c))

\* Slip: a fresh state is returned instead of the one run holds.
OkFresh(s) == [tag |-> "Ok", state |-> <<>>]

\* Ok(state)
Ok(s) == [tag |-> "Ok", state |-> s]

\* Slip: the failure also hands back the state run holds.
ErrWithState(e) == [tag |-> "Err", err |-> e, state |-> state]

\* The Err(e) that `?` returns.
Err(e) == [tag |-> "Err", err |-> e]

\* Slip: process is handed the popped command, not the parsed one.
HandedPopped(popped) == popped

\* `let cmd: C = Arguable::from_args(cmd)?`: the command handed to process.
Handed(popped) == RoundTrip(popped).cmd

\* Slip: the new state is dropped.
AssignDropped(old, new) == old

\* state = state_
Assign(old, new) == new

\* The trait calls of one loop iteration, as history records.
ToArgsCall(c) == [fn |-> "to_args", cmd |-> c, ret |-> to_args(c)]
FromArgsCall(c) == [fn |-> "from_args", args |-> to_args(c), ret |-> RoundTrip(c)]
ProcessCall(c, s) == [fn |-> "process", cmd |-> c, state |-> s, ret |-> process(c, s)]

\* Largest number of executions of a finite expansion with at most e
\* follow-ups in all; longer runs are cut off by the model.
RECURSIVE TreeBound(_)
TreeBound(e) ==
    IF e = 0 THEN 1
    ELSE LET ks == 1..Min(e, MaxFollow)
             best == CHOOSE k \in ks : \A j \in ks : k * TreeBound(e - k) >= j * TreeBound(e - j)
         IN  1 + best * TreeBound(e - best)

StepCap == TreeBound(MaxEdges)

\* Commands are values without meaning of their own, so an implementation is
\* drawn up to renaming: the initial command is A, the others are named in the
\* order the follow-up lists of A, B, C, D first mention them, and a command
\* that no list mentions has no follow-ups.  Discover(row, n) is the number of
\* commands known after `row` when the first n names were known before it,
\* and -1 when the row names a command out of turn.
RECURSIVE Discover(_, _)
Discover(row, n) ==
    IF row = <<>> THEN n
    ELSE LET k == Index(Head(row))
         IN  IF k <= n THEN Discover(Tail(row), n)
             ELSE IF k = n + 1 THEN Discover(Tail(row), n + 1)
             ELSE -1

\* The follow-up lists command number k may have with `left` follow-ups left
\* to give out and the first n names known.
Rows(k, n, left) ==
    IF k > n THEN {<<>>}
    ELSE {r \in SeqsUpTo(Min(MaxFollow, left)) : Discover(r, n) # -1}

\* The state after `let mut cmds = vec!(cmd)`, for an implementation with at
\* most `edges` follow-ups in all, a state argument among `states` and a
\* nested call among `nests`.
InitWith(edges, states, nests) ==
    /\ \E fa \in Rows(1, 1, edges) :
       LET na == Discover(fa, 1) IN
       \E fb \in Rows(2, na, edges - Len(fa)) :
       LET nb == Discover(fb, na) IN
       \E fc \in Rows(3, nb, edges - Len(fa) - Len(fb)) :
       LET nc == Discover(fc, nb) IN
       \E fd \in Rows(4, nc, edges - Len(fa) - Len(fb) - Len(fc)) :
          /\ follow = [c \in Cmds |-> CASE c = "A" -> fa [] c = "B" -> fb
                                        [] c = "C" -> fc [] OTHER -> fd]
          /\ quirk \in {q \in Quirks : q.kind # "none" => Index(q.cmd) <= nc}
          /\ nest \in {n \in nests : n.kind # "none" => Index(n.cmd) <= nc}
    /\ state0 \in states
    /\ cmds = <<InitCmd>>                     \* let mut cmds = vec!(cmd)
    /\ state = InitState
    /\ pc = "loop"
    /\ result = [tag |-> "None"]
    /\ calls = <<>>
    /\ tags = <<1>>
    /\ parent = <<0>>
    /\ done = <<>>
    /\ frames = <<>>
    /\ wenv = "none" /\ wb = "none" /\ ws = "none" /\ wlog = <<>>

\* run called with the empty state, on the larger expansions.
Init == InitWith(MaxEdges, {<<>>}, {NoNest})

\* run called with any of the states, on the smaller expansions.
InitAnyState == InitWith(MaxEdgesAnyState, InitStates, {NoNest})

\* Slip: the loop is left while one command is still queued.
ReturnOkEarly ==
    /\ pc = "loop"
    /\ Len(cmds) <= 1
    /\ pc' = "returned"
    /\ result' = Ok(state)
    /\ UNCHANGED <<wvars, nest, frames, state0, follow, quirk, cmds, state, calls, tags, parent, done>>

\* cmds.pop() is None: break, Ok(state).
ReturnOk ==
    /\ pc = "loop"
    /\ cmds = <<>>
    /\ pc' = "returned"
    /\ result' = Ok(state)
    /\ UNCHANGED <<wvars, nest, frames, state0, follow, quirk, cmds, state, calls, tags, parent, done>>

\* Slip: a command that does not parse is skipped and the loop goes on.
FromArgsErrSkipped ==
    /\ pc = "loop"
    /\ cmds # <<>>
    /\ LET i == PopIndex(cmds)
           cmd == cmds[i]
       IN  /\ ~RoundTrip(cmd).ok
           /\ cmds' = Remove(cmds, i)
           /\ tags' = Remove(tags, i)
           /\ calls' = calls \o <<ToArgsCall(cmd), FromArgsCall(cmd)>>
    /\ UNCHANGED <<wvars, nest, frames, state0, follow, quirk, state, parent, done, result, pc>>

\* An iteration in which from_args returns an error: `?` returns it.
FromArgsErr ==
    /\ pc = "loop"
    /\ cmds # <<>>
    /\ LET i == PopIndex(cmds)
           cmd == cmds[i]
       IN  /\ ~RoundTrip(cmd).ok
           /\ cmds' = Remove(cmds, i)
           /\ tags' = Remove(tags, i)
           /\ calls' = calls \o <<ToArgsCall(cmd), FromArgsCall(cmd)>>
           /\ result' = Err(Propagate(RoundTrip(cmd).err))
           /\ pc' = "returned"
    /\ UNCHANGED <<wvars, nest, frames, state0, follow, quirk, state, parent, done>>

\* Slip: the error of process is noted and the loop goes on.
ProcessErrContinues ==
    /\ pc = "loop"
    /\ cmds # <<>>
    /\ LET i == PopIndex(cmds)
           popped == cmds[i]
       IN  /\ RoundTrip(popped).ok
           /\ LET cmd == Handed(popped)
              IN  /\ ~process(cmd, state).ok
                  /\ cmds' = Remove(cmds, i)
                  /\ tags' = Remove(tags, i)
                  /\ calls' = calls \o <<ToArgsCall(popped), FromArgsCall(popped),
                                         ProcessCall(cmd, state)>>
                  /\ result' = Err(Propagate(process(cmd, state).err))
    /\ UNCHANGED <<wvars, nest, frames, state0, follow, quirk, state, parent, done, pc>>

\* Slip: the follow-ups of the command that failed are queued before the
\* error is returned.
ProcessErrQueues ==
    /\ pc = "loop"
    /\ cmds # <<>>
    /\ LET i == PopIndex(cmds)
           popped == cmds[i]
       IN  /\ RoundTrip(popped).ok
           /\ LET cmd == Handed(popped)
                  fresh == [k \in 1..Len(follow[cmd]) |-> Len(parent) + k]
              IN  /\ ~process(cmd, state).ok
                  /\ cmds' = Extend(Remove(cmds, i), follow[cmd])
                  /\ tags' = Extend(Remove(tags, i), fresh)
                  /\ parent' = parent \o [k \in 1..Len(follow[cmd]) |-> tags[i]]
                  /\ calls' = calls \o <<ToArgsCall(popped), FromArgsCall(popped),
                                         ProcessCall(cmd, state)>>
                  /\ result' = Err(Propagate(process(cmd, state).err))
                  /\ pc' = "returned"
    /\ UNCHANGED <<wvars, nest, frames, state0, follow, quirk, state, done>>

\* An iteration in which process returns an error: `?` returns it.  The state
\* was moved into process and is gone.
ProcessErr ==
    /\ pc = "loop"
    /\ cmds # <<>>
    /\ LET i == PopIndex(cmds)
           popped == cmds[i]
       IN  /\ RoundTrip(popped).ok
           /\ LET cmd == Handed(popped)
              IN  /\ ~process(cmd, state).ok
                  /\ cmds' = Remove(cmds, i)
                  /\ tags' = Remove(tags, i)
                  /\ calls' = calls \o <<ToArgsCall(popped), FromArgsCall(popped),
                                         ProcessCall(cmd, state)>>
                  /\ result' = Err(Propagate(process(cmd, state).err))
                  /\ pc' = "returned"
    /\ UNCHANGED <<wvars, nest, frames, state0, follow, quirk, state, parent, done>>

\* Variant: a command that was executed before is refused as a cycle.
ExecuteCycleChecked ==
    /\ pc = "loop"
    /\ cmds # <<>>
    /\ Len(done) < StepCap
    /\ LET i == PopIndex(cmds)
           popped == cmds[i]
       IN  /\ RoundTrip(popped).ok
           /\ LET cmd == Handed(popped)
                  r == process(cmd, state)
                  fresh == [k \in 1..Len(r.new_cmds) |-> Len(parent) + k]
                  seen == \E k \in 1..Len(calls) :
                              calls[k].fn = "process" /\ calls[k].cmd = cmd
              IN  /\ r.ok
                  /\ IF seen
                     THEN /\ result' = Err([from |-> "run", cycle |-> cmd])
                          /\ pc' = "returned"
                          /\ cmds' = Remove(cmds, i)
                          /\ tags' = Remove(tags, i)
                          /\ UNCHANGED <<state, parent, done, calls>>
                     ELSE /\ state' = Assign(state, r.state)
                          /\ cmds' = Extend(Remove(cmds, i), r.new_cmds)
                          /\ tags' = Extend(Remove(tags, i), fresh)
                          /\ parent' = parent \o [k \in 1..Len(r.new_cmds) |-> tags[i]]
                          /\ done' = Append(done, tags[i])
                          /\ calls' = calls \o <<ToArgsCall(popped), FromArgsCall(popped),
                                                 ProcessCall(cmd, state)>>
                          /\ UNCHANGED <<pc, result>>
    /\ UNCHANGED <<wvars, nest, frames, state0, follow, quirk>>

\* An iteration that succeeds: the state is replaced and the follow-ups are
\* pushed in reverse.
Execute ==
    /\ pc = "loop"
    /\ cmds # <<>>
    /\ Len(done) < StepCap
    /\ LET i == PopIndex(cmds)
           popped == cmds[i]
       IN  /\ RoundTrip(popped).ok
           /\ LET cmd == Handed(popped)
                  r == process(cmd, state)
                  fresh == [k \in 1..Len(r.new_cmds) |-> Len(parent) + k]
              IN  /\ r.ok
                  /\ ~Nesting(cmd)
                  /\ state' = Assign(state, r.state)
                  /\ cmds' = Extend(Remove(cmds, i), r.new_cmds)
                  /\ tags' = Extend(Remove(tags, i), fresh)
                  /\ parent' = parent \o [k \in 1..Len(r.new_cmds) |-> tags[i]]
                  /\ done' = Append(done, tags[i])
                  /\ calls' = calls \o <<ToArgsCall(popped), FromArgsCall(popped),
                                         ProcessCall(cmd, state)>>
    /\ UNCHANGED <<wvars, nest, frames, state0, follow, quirk, pc, result>>

Next == ReturnOk \/ FromArgsErr \/ ProcessErr \/ Execute

Spec == Init /\ [][Next]_vars

SpecAnyState == InitAnyState /\ [][Next]_vars

\* run is a sequential loop: while it has not returned it takes its next step.
FairSpec == Spec /\ WF_vars(Next)

TypeOK ==
    /\ pc \in {"loop", "returned", "idle"}
    /\ Len(tags) = Len(cmds)

----------------------------------------------------------------------------
(* What the history says *)

ProcessCalls == SelectSeq(calls, LAMBDA k : k.fn = "process")

\* The commands process was called on, in order.
Executed == [i \in 1..Len(ProcessCalls) |-> ProcessCalls[i].cmd]

Succeeded == pc = "returned" /\ result.tag = "Ok"
Failed == result.tag = "Err"

\* Every round trip so far gave back the command that was popped.
Faithful ==
    \A i \in 1..Len(calls) :
        calls[i].fn = "from_args" => calls[i].ret.ok /\ calls[i].ret.cmd = calls[i - 1].cmd

\* The depth-first pre-order traversal of the expansion tree rooted at c.
RECURSIVE PreOrder(_), PreOrderAll(_)
PreOrder(c) == <<c>> \o PreOrderAll(follow[c])
PreOrderAll(s) == IF s = <<>> THEN <<>> ELSE PreOrder(Head(s)) \o PreOrderAll(Tail(s))

\* A -> [B, C], B -> [D], C -> [], D -> []
ExampleTree ==
    [c \in Cmds |-> CASE c = "A" -> <<"B", "C">> [] c = "B" -> <<"D">> [] OTHER -> <<>>]

\* Position of node n in `done`, 0 when it has not been executed.
ExecPos(n) == IF \E i \in 1..Len(done) : done[i] = n
              THEN CHOOSE i \in 1..Len(done) : done[i] = n
              ELSE 0

\* Node z was emitted, directly or transitively, by node x.
RECURSIVE IsDescendant(_, _)
IsDescendant(z, x) ==
    /\ parent[z] # 0
    /\ (parent[z] = x \/ IsDescendant(parent[z], x))

----------------------------------------------------------------------------
(* C1..C4 *)

\* C1: a run that succeeds with faithful round trips has called process on
\* exactly the depth-first pre-order traversal of the expansion tree rooted at
\* the initial command, follow-ups in declared order; for A -> [B, C],
\* B -> [D] that is A, B, D, C.
C1_DepthFirstPreOrder ==
    (Succeeded /\ Faithful) =>
        /\ Executed = PreOrder(InitCmd)
        /\ follow = ExampleTree => Executed = <<"A", "B", "D", "C">>

C1_Witness ==
    Succeeded /\ Faithful /\ follow = ExampleTree /\ Executed = <<"A", "B", "D", "C">>

\* C2: when x was executed while y was waiting in the queue and y has been
\* executed too, every command emitted by x, directly or transitively, was
\* executed before y.
C2_FollowUpsBeforeWaiting ==
    \A j \in 1..Len(done) : \A i \in 1..(j - 1) :
        LET y == done[j]
            x == done[i]
        IN  (parent[y] # 0 /\ ExecPos(parent[y]) < i) =>
                \A z \in 1..Len(parent) :
                    IsDescendant(z, x) => (ExecPos(z) # 0 /\ ExecPos(z) < j)

\* x = done[i] has emitted follow-ups, which have emitted follow-ups, while
\* y = done[j] was waiting, and y has been executed.
C2_Witness ==
    \E j \in 1..Len(done) : \E i \in 1..(j - 1) :
        /\ parent[done[j]] # 0
        /\ ExecPos(parent[done[j]]) < i
        /\ \E z \in 1..Len(parent) :
              IsDescendant(z, done[i]) /\ parent[z] # done[i]

\* C3: once run has failed nothing more happens: no further trait call, no
\* further execution, and the commands left in the queue stay there.
C3_FailFast ==
    [][Failed => (pc = "returned" /\ UNCHANGED <<calls, done, cmds, state, result>>)]_vars

\* The third execution failed while a fourth command was still queued.
C3_Witness ==
    Failed /\ Len(ProcessCalls) = 3 /\ Len(cmds) >= 1

\* C4: a failed run returns the error alone, with no state in it.
C4_ErrorAlone ==
    Failed => (DOMAIN result = {"tag", "err"} /\ pc = "returned")

\* The run failed after executions that changed the state.
C4_Witness ==
    Failed /\ state # InitState /\ Len(done) >= 2

----------------------------------------------------------------------------
(* C5..C10 *)

\* The state returned by the last successful process call, the initial state
\* when there is none.
LastState ==
    LET oks == SelectSeq(ProcessCalls, LAMBDA k : k.ret.ok)
    IN  IF oks = <<>> THEN InitState ELSE oks[Len(oks)].ret.state

\* C5 as stated: whenever the round trip of a popped command does not give
\* back that command, the run fails there with the serialization error
\* instead of executing what it got.
C5_LossySurfaced ==
    \A i \in 1..Len(calls) :
        (calls[i].fn = "from_args"
            /\ ~(calls[i].ret.ok /\ calls[i].ret.cmd = calls[i - 1].cmd)) =>
                /\ i = Len(calls)
                /\ Failed
                /\ result.err.from = "from_args"

\* C5 amended: the run fails with the serialization error exactly when
\* from_args returns an error; a command from_args returns is handed to
\* process, also when it is not the one that was popped.
C5_ParseErrorSurfaced ==
    \A i \in 1..Len(calls) :
        calls[i].fn = "from_args" =>
            IF calls[i].ret.ok
            THEN /\ i < Len(calls)
                 /\ calls[i + 1].fn = "process"
                 /\ calls[i + 1].cmd = calls[i].ret.cmd
            ELSE /\ i = Len(calls)
                 /\ pc = "returned"
                 /\ result = Err(calls[i].ret.err)

\* A run has succeeded although a round trip gave back another command.
C5_Witness == Succeeded /\ ~Faithful

\* C6: every process call comes right after to_args of the popped command and
\* from_args of these tokens, and is made on the command from_args returned;
\* after a from_args error there is no process call and the state is the one
\* the last execution left.
C6_RoundTripBeforeProcess ==
    \A i \in 1..Len(calls) :
        /\ calls[i].fn = "process" =>
              /\ i >= 3
              /\ calls[i - 2].fn = "to_args"
              /\ calls[i - 1].fn = "from_args"
              /\ calls[i - 1].args = calls[i - 2].ret
              /\ calls[i - 1].ret.ok
              /\ calls[i].cmd = calls[i - 1].ret.cmd
        /\ (calls[i].fn = "from_args" /\ ~calls[i].ret.ok) =>
              /\ i = Len(calls)
              /\ calls[i - 1].fn = "to_args"
              /\ calls[i].args = calls[i - 1].ret
              /\ state = LastState

\* process was called on a command that differs from the popped one.
C6_Witness ==
    \E i \in 3..Len(calls) :
        calls[i].fn = "process" /\ calls[i].cmd # calls[i - 2].cmd

\* C7: run returns success only with an empty queue, and with the state the
\* last process call returned.
C7_SuccessWhenDrained ==
    Succeeded =>
        /\ cmds = <<>>
        /\ ProcessCalls # <<>>
        /\ result = Ok(ProcessCalls[Len(ProcessCalls)].ret.state)

\* A successful run of several executions, the last of which changed the state.
C7_Witness ==
    /\ Succeeded
    /\ Len(ProcessCalls) >= 3
    /\ ProcessCalls[Len(ProcessCalls)].ret.state # ProcessCalls[Len(ProcessCalls)].state

\* The commands reachable from the commands of S through follow-up lists.
RECURSIVE Closure(_)
Closure(S) ==
    LET T == S \cup UNION {Range(follow[c]) : c \in S}
    IN  IF T = S THEN S ELSE Closure(T)

Reachable == Closure({InitCmd})

\* No reachable command emits itself, directly or through its follow-ups.
FiniteExpansion == \A c \in Reachable : c \notin Closure(Range(follow[c]))

\* Every reachable command round-trips to itself and executes without error.
NoFailure ==
    \A c \in Reachable :
        /\ RoundTrip(c) = [ok |-> TRUE, cmd |-> c]
        /\ process(c, InitState).ok

\* C8: when the expansion is finite and no command of it fails, run
\* eventually returns successfully with an empty queue.
C8_Terminates ==
    (NoFailure /\ FiniteExpansion) => <>(Succeeded /\ cmds = <<>>)

\* A finite expansion of at least five executions has been run to its end.
C8_Witness ==
    NoFailure /\ FiniteExpansion /\ Succeeded /\ Len(done) >= 5

\* C9: the error run returns is the error of the failing call, which is the
\* last call made and the only one that failed.
C9_ErrorUnchanged ==
    Failed =>
        /\ calls # <<>>
        /\ calls[Len(calls)].fn \in {"from_args", "process"}
        /\ ~calls[Len(calls)].ret.ok
        /\ result.err = calls[Len(calls)].ret.err
        /\ \A i \in 1..(Len(calls) - 1) :
              calls[i].fn \in {"from_args", "process"} => calls[i].ret.ok

\* process has failed after at least one execution.
C9_Witness ==
    Failed /\ Len(done) >= 1 /\ result.err.from = "process"

\* The initial command round-trips, executes and emits no follow-ups.
EmptyExpansion ==
    /\ RoundTrip(InitCmd).ok
    /\ process(RoundTrip(InitCmd).cmd, InitState).ok
    /\ process(RoundTrip(InitCmd).cmd, InitState).new_cmds = <<>>

\* C10: a run whose initial command emits no follow-ups executes exactly one
\* command and returns successfully with the state that execution produced.
C10_EmptyExpansionEnds ==
    /\ [](EmptyExpansion =>
            /\ Len(ProcessCalls) <= 1
            /\ pc = "returned" =>
                  /\ Len(ProcessCalls) = 1
                  /\ result = Ok(process(RoundTrip(InitCmd).cmd, InitState).state))
    /\ EmptyExpansion => <>(pc = "returned")

\* Such a run has returned, with a state that is not the initial one.
C10_Witness ==
    EmptyExpansion /\ Succeeded /\ result.state # InitState

----------------------------------------------------------------------------
(* C11..C20 *)

\* The initial command round-trips, and its process returns whatever state it
\* is given, unchanged, with no follow-ups.
NoOpCommand ==
    /\ RoundTrip(InitCmd).ok
    /\ \A s \in InitStates :
          process(RoundTrip(InitCmd).cmd, s) = [ok |-> TRUE, state |-> s, new_cmds |-> <<>>]

\* C11: run of a command that leaves the state unchanged and emits nothing
\* returns exactly the state it was called with, whatever that state is.
C11_NoOpReturnsInitialState ==
    NoOpCommand =>
        /\ state = state0
        /\ pc = "returned" => (result.tag = "Ok" /\ result.state = state0)

\* Such a run has returned, called with a state that is not the empty one.
C11_Witness ==
    NoOpCommand /\ pc = "returned" /\ state0 # <<>> /\ Len(ProcessCalls) = 1

----------------------------------------------------------------------------
(* rustwide/src/workspace.rs: WorkspaceBuilder and Workspace *)

\* Setter calls made on one builder before init.
MaxBuilderCalls == 2

None == [some |-> FALSE]
Some(x) == [some |-> TRUE, val |-> x]

\* static DEFAULT_SANDBOX_IMAGE, chosen by #[cfg(windows)]
DEFAULT_SANDBOX_IMAGE ==
    IF wenv.windows THEN "rustops/crates-build-env-windows" ELSE "rustops/crates-build-env"

DEFAULT_COMMAND_TIMEOUT == Some(15 * 60)
DEFAULT_COMMAND_NO_OUTPUT_TIMEOUT == None

\* The arguments the builder is called with.
Paths == {<<"work">>}
Images == {[name |-> "custom/a"], [name |-> "custom/b"]}
Timeouts == {None, Some(60)}

\* WorkspaceBuilder::new
new(path) ==
    [path |-> path,
     sandbox_image |-> None,
     command_timeout |-> DEFAULT_COMMAND_TIMEOUT,
     command_no_output_timeout |-> DEFAULT_COMMAND_NO_OUTPUT_TIMEOUT]

\* WorkspaceBuilder::sandbox_image
sandbox_image(self, image) == [self EXCEPT !.sandbox_image = Some(image)]

\* WorkspaceBuilder::command_timeout
command_timeout(self, timeout) == [self EXCEPT !.command_timeout = timeout]

\* WorkspaceBuilder::command_no_output_timeout
command_no_output_timeout(self, timeout) ==
    [self EXCEPT !.command_no_output_timeout = timeout]

\* std::fs::create_dir_all(&self.path).with_context(..): the call and what it
\* returns on this system.
create_dir_all(path) ==
    [fn |-> "create_dir_all", arg |-> path,
     ret |-> IF wenv.dir_ok THEN [ok |-> TRUE]
             ELSE [ok |-> FALSE,
                   err |-> [context |-> "failed to create workspace directory", path |-> path]]]

\* SandboxImage::remote(name): the call and what it returns on this system.
remote(name) ==
    [fn |-> "remote", arg |-> name,
     ret |-> IF wenv.remote_ok THEN [ok |-> TRUE, val |-> [name |-> name]]
             ELSE [ok |-> FALSE, err |-> [context |-> "remote image", name |-> name]]]

\* Slip: the default image is resolved whether or not there is an override.
ResolveDefault(self) == <<remote(DEFAULT_SANDBOX_IMAGE)>>

\* `if let Some(img) = self.sandbox_image { img } else { remote(DEFAULT)? }`:
\* the calls made to find the image, none when there is an override.
Resolve(self) ==
    IF self.sandbox_image.some THEN <<>> ELSE <<remote(DEFAULT_SANDBOX_IMAGE)>>

\* Slip: the image is resolved before the directory is created.
initImageFirst(self) ==
    LET img == Resolve(self)
        dir == create_dir_all(self.path)
    IN  IF img # <<>> /\ ~img[1].ret.ok
        THEN [calls |-> img, ret |-> [tag |-> "Err", err |-> img[1].ret.err]]
        ELSE IF ~dir.ret.ok
        THEN [calls |-> img \o <<dir>>, ret |-> [tag |-> "Err", err |-> dir.ret.err]]
        ELSE [calls |-> img \o <<dir>>,
              ret |-> [tag |-> "Ok",
                       val |-> [path |-> self.path,
                                sandbox_image |-> IF img = <<>> THEN self.sandbox_image.val
                                                  ELSE img[1].ret.val,
                                command_timeout |-> self.command_timeout,
                                command_no_output_timeout |-> self.command_no_output_timeout]]]

\* WorkspaceBuilder::init: the calls it makes and the Result it returns.
init(self) ==
    LET dir == create_dir_all(self.path)
        img == Resolve(self)
    IN  IF ~dir.ret.ok
        THEN [calls |-> <<dir>>, ret |-> [tag |-> "Err", err |-> dir.ret.err]]
        ELSE IF img # <<>> /\ ~img[1].ret.ok
        THEN [calls |-> <<dir>> \o img, ret |-> [tag |-> "Err", err |-> img[1].ret.err]]
        ELSE [calls |-> <<dir>> \o img,
              ret |-> [tag |-> "Ok",
                       val |-> [path |-> self.path,
                                sandbox_image |-> IF img = <<>> THEN self.sandbox_image.val
                                                  ELSE img[1].ret.val,
                                command_timeout |-> self.command_timeout,
                                command_no_output_timeout |-> self.command_no_output_timeout]]]

\* Workspace: the accessors.
cargo_home(self) == self.path \o <<"local", "cargo-home">>
rustup_home(self) == self.path \o <<"local", "rustup-home">>
workspace_sandbox_image(self) == self.sandbox_image
default_command_timeout(self) == self.command_timeout
default_command_no_output_timeout(self) == self.command_no_output_timeout

NotBuilt == [tag |-> "NotBuilt"]

\* The setter calls made so far.
SetterCalls == SelectSeq(wlog, LAMBDA k : k.fn \in {"sandbox_image", "command_timeout",
                                                    "command_no_output_timeout"})

\* A builder fresh from WorkspaceBuilder::new, on some system; run is not used.
WsInit ==
    /\ wenv \in [windows : BOOLEAN, dir_ok : BOOLEAN, remote_ok : BOOLEAN]
    /\ \E path \in Paths :
          /\ wb = new(path)
          /\ wlog = <<[fn |-> "new", arg |-> path]>>
    /\ ws = NotBuilt
    /\ state0 = <<>> /\ follow = [c \in Cmds |-> <<>>] /\ quirk = NoQuirk
    /\ cmds = <<>> /\ state = <<>> /\ pc = "idle" /\ result = [tag |-> "None"]
    /\ calls = <<>> /\ tags = <<>> /\ parent = <<>> /\ done = <<>>
    /\ nest = NoNest /\ frames = <<>>

CallSandboxImage ==
    /\ ws = NotBuilt
    /\ Len(SetterCalls) < MaxBuilderCalls
    /\ \E image \in Images :
          /\ wb' = sandbox_image(wb, image)
          /\ wlog' = Append(wlog, [fn |-> "sandbox_image", arg |-> image])
    /\ UNCHANGED <<evars, wenv, ws>>

CallCommandTimeout ==
    /\ ws = NotBuilt
    /\ Len(SetterCalls) < MaxBuilderCalls
    /\ \E timeout \in Timeouts :
          /\ wb' = command_timeout(wb, timeout)
          /\ wlog' = Append(wlog, [fn |-> "command_timeout", arg |-> timeout])
    /\ UNCHANGED <<evars, wenv, ws>>

CallCommandNoOutputTimeout ==
    /\ ws = NotBuilt
    /\ Len(SetterCalls) < MaxBuilderCalls
    /\ \E timeout \in Timeouts :
          /\ wb' = command_no_output_timeout(wb, timeout)
          /\ wlog' = Append(wlog, [fn |-> "command_no_output_timeout", arg |-> timeout])
    /\ UNCHANGED <<evars, wenv, ws>>

CallInit ==
    /\ ws = NotBuilt
    /\ ws' = init(wb).ret
    /\ wlog' = wlog \o init(wb).calls
    /\ UNCHANGED <<evars, wenv, wb>>

WsNext == CallSandboxImage \/ CallCommandTimeout \/ CallCommandNoOutputTimeout \/ CallInit

WsSpec == WsInit /\ [][WsNext]_vars

\* The images passed to sandbox_image, in call order.
Overrides == SelectSeq(wlog, LAMBDA k : k.fn = "sandbox_image")

RemoteCalls == SelectSeq(wlog, LAMBDA k : k.fn = "remote")

\* C12: the workspace init yields has the image of the last sandbox_image
\* call when there was one, and then the default is not even resolved; it has
\* the platform's default image when there was none.
C12_SandboxImageChoice ==
    ws.tag = "Ok" =>
        IF Overrides # <<>>
        THEN /\ workspace_sandbox_image(ws.val) = Overrides[Len(Overrides)].arg
             /\ RemoteCalls = <<>>
        ELSE /\ workspace_sandbox_image(ws.val).name =
                    (IF wenv.windows THEN "rustops/crates-build-env-windows"
                     ELSE "rustops/crates-build-env")
             /\ Len(RemoteCalls) = 1

\* A workspace built after two sandbox_image calls with different images.
C12_Witness ==
    /\ ws.tag = "Ok"
    /\ Len(Overrides) = 2
    /\ Overrides[1].arg # Overrides[2].arg

\* C13: when the base directory cannot be created init returns the error of
\* that call and no Workspace, and resolves no image; an image is resolved
\* only after the directory was created.
C13_DirectoryFirst ==
    ws # NotBuilt =>
        /\ ~wenv.dir_ok =>
              /\ ws.tag = "Err"
              /\ ws.err.context = "failed to create workspace directory"
              /\ RemoteCalls = <<>>
        /\ \A i \in 1..Len(wlog) :
              wlog[i].fn = "remote" =>
                  \E j \in 1..(i - 1) : wlog[j].fn = "create_dir_all" /\ wlog[j].ret.ok

\* init has failed on the directory with no override, where the default image
\* would have been resolved next.
C13_Witness ==
    /\ ws.tag = "Err"
    /\ ~wenv.dir_ok
    /\ wenv.remote_ok
    /\ Overrides = <<>>

\* C14: the first process call is given the state run was called with, every
\* later one the state the process call before it returned, and between the
\* calls run holds exactly that state.
C14_StateThreaded ==
    /\ \A i \in 1..Len(ProcessCalls) :
          ProcessCalls[i].state =
              (IF i = 1 THEN state0 ELSE ProcessCalls[i - 1].ret.state)
    /\ \A i \in 1..(Len(ProcessCalls) - 1) : ProcessCalls[i].ret.ok
    /\ state = LastState

\* Three executions, each of which changed the state, from a state that is
\* not the empty one.
C14_Witness ==
    /\ state0 # <<>>
    /\ Len(ProcessCalls) = 3
    /\ \A i \in 1..3 : ProcessCalls[i].ret.ok /\ ProcessCalls[i].ret.state # ProcessCalls[i].state

\* C15: an iteration pops the top of the queue; after a process call that
\* returned follow-ups the top of the queue is the first of them, and after
\* one that returned none the queue is what lay beneath the executed command.
C15_NextCommand ==
    [][calls' # calls =>
          /\ calls'[Len(calls) + 1].fn = "to_args"
          /\ calls'[Len(calls) + 1].cmd = cmds[Len(cmds)]
          /\ LET last == calls'[Len(calls')]
             IN  (last.fn = "process" /\ last.ret.ok) =>
                    IF last.ret.new_cmds # <<>>
                    THEN /\ cmds'[Len(cmds')] = last.ret.new_cmds[1]
                         /\ parent'[tags'[Len(tags')]] = tags[Len(tags)]
                         /\ SubSeq(cmds', 1, Len(cmds) - 1) = SubSeq(cmds, 1, Len(cmds) - 1)
                    ELSE /\ cmds' = SubSeq(cmds, 1, Len(cmds) - 1)
                         /\ tags' = SubSeq(tags, 1, Len(tags) - 1)]_vars

\* A command that emits itself first and another command second has been
\* executed again right away, the other command still waiting.
C15_Witness ==
    \E i \in 1..(Len(ProcessCalls) - 1) :
        /\ ProcessCalls[i].ret.ok
        /\ Len(ProcessCalls[i].ret.new_cmds) = 2
        /\ ProcessCalls[i].ret.new_cmds[1] = ProcessCalls[i].cmd
        /\ ProcessCalls[i].ret.new_cmds[2] # ProcessCalls[i].cmd
        /\ ProcessCalls[i + 1].cmd = ProcessCalls[i].cmd
        /\ Faithful

\* The expansion is unbounded: some reachable command emits itself, directly
\* or through its follow-ups, and no reachable command fails.
UnboundedExpansion == NoFailure /\ ~FiniteExpansion

\* C16: on an unbounded expansion run never returns, neither Ok nor an error:
\* the queue is never empty and the command on top of it can be executed.
\* (The model follows such a run for StepCap executions.)
C16_NeverReturns ==
    UnboundedExpansion =>
        /\ pc = "loop"
        /\ result = [tag |-> "None"]
        /\ cmds # <<>>
        /\ RoundTrip(cmds[Len(cmds)]).ok
        /\ process(RoundTrip(cmds[Len(cmds)]).cmd, state).ok
        /\ Len(done) * 3 = Len(calls)

\* A command that emits itself has been executed as often as the model
\* follows a run, and run is still in its loop.
C16_Witness ==
    /\ UnboundedExpansion
    /\ InitCmd \in Range(follow[InitCmd])
    /\ Len(done) = StepCap
    /\ pc = "loop"

----------------------------------------------------------------------------
(* run called from inside a process call *)

\* Total number of follow-ups of an implementation with a nested call.
MaxEdgesNested == 3

\* Calls of run that may wait inside a process call at one time.
MaxNesting == 2

\* Slip: the queue is shared, the new call pushes onto the waiting one's.
SharedQueue(waiting, c) == Append(waiting, c)

\* `let mut cmds = vec!(cmd)` of a new call of run: a local of its own, which
\* holds nothing of the queue of the call that waits.
FreshQueue(waiting, c) == <<c>>

\* An iteration whose process call calls run(InitState, nest.inner): the
\* iteration waits with its locals, and the new call starts.
EnterNested ==
    /\ pc = "loop"
    /\ cmds # <<>>
    /\ Len(done) < StepCap
    /\ Len(frames) < MaxNesting
    /\ LET i == PopIndex(cmds)
           popped == cmds[i]
       IN  /\ RoundTrip(popped).ok
           /\ LET cmd == Handed(popped)
              IN  /\ process(cmd, state).ok
                  /\ Nesting(cmd)
                  /\ frames' = Append(frames, [cmds |-> Remove(cmds, i),
                                               tags |-> Remove(tags, i),
                                               state |-> state,
                                               cmd |-> cmd,
                                               node |-> tags[i],
                                               root |-> Len(parent) + 1])
                  /\ cmds' = FreshQueue(Remove(cmds, i), nest.inner)
                  /\ tags' = FreshQueue(Remove(tags, i), Len(parent) + 1)
                  /\ parent' = Append(parent, 0)
                  /\ state' = InitState
                  /\ calls' = calls \o <<ToArgsCall(popped), FromArgsCall(popped)>>
    /\ UNCHANGED <<wvars, nest, state0, follow, quirk, pc, result, done>>

\* The nested call has returned: the process call that made it returns, with
\* its new state and follow-ups or with the error of the nested call, and the
\* iteration that waited goes on from `cmd.process(state)?`.
ResumeOuter ==
    /\ pc = "returned"
    /\ frames # <<>>
    /\ LET f == frames[Len(frames)]
           r == IF result.tag = "Ok" THEN process(f.cmd, f.state)
                ELSE [ok |-> FALSE, err |-> result.err]
       IN  /\ frames' = SubSeq(frames, 1, Len(frames) - 1)
           /\ calls' = Append(calls, [fn |-> "process", cmd |-> f.cmd,
                                      state |-> f.state, ret |-> r])
           /\ IF r.ok
              THEN /\ state' = Assign(f.state, r.state)
                   /\ cmds' = Extend(f.cmds, r.new_cmds)
                   /\ tags' = Extend(f.tags, [k \in 1..Len(r.new_cmds) |-> Len(parent) + k])
                   /\ parent' = parent \o [k \in 1..Len(r.new_cmds) |-> f.node]
                   /\ done' = Append(done, f.node)
                   /\ pc' = "loop"
                   /\ result' = [tag |-> "None"]
              ELSE /\ state' = f.state
                   /\ cmds' = f.cmds
                   /\ tags' = f.tags
                   /\ result' = Err(Propagate(r.err))
                   /\ UNCHANGED <<parent, done, pc>>
    /\ UNCHANGED <<wvars, nest, state0, follow, quirk>>

InitNested == InitWith(MaxEdgesNested, {<<>>}, Nests)

NestedNext == Next \/ EnterNested \/ ResumeOuter

NestedSpec == InitNested /\ [][NestedNext]_vars

\* The commands a waiting call of run has pending are in no other queue and
\* are not executed, and the queue of the running call holds only commands of
\* its own expansion.
QueuesApart ==
    /\ \A k \in 1..Len(frames) :
          \A i \in 1..Len(frames[k].tags) :
              /\ frames[k].tags[i] \notin Range(done)
              /\ frames[k].tags[i] \notin Range(tags)
              /\ \A j \in (k + 1)..Len(frames) :
                    frames[k].tags[i] \notin Range(frames[j].tags)
    /\ frames # <<>> =>
          \A i \in 1..Len(tags) :
              \/ tags[i] = frames[Len(frames)].root
              \/ IsDescendant(tags[i], frames[Len(frames)].root)

\* While a nested call runs the waiting calls keep their queues, and when it
\* has returned successfully the call that waited goes on with the commands
\* it had pending and, on top, the follow-ups of the enclosing process call.
QueueKeptAcrossNesting ==
    /\ (frames # <<>> /\ Len(frames') >= Len(frames)) =>
          SubSeq(frames', 1, Len(frames)) = frames
    /\ (Len(frames') < Len(frames) /\ result.tag = "Ok") =>
          LET f == frames[Len(frames)]
              emitted == calls'[Len(calls')].ret.new_cmds
          IN  /\ Len(cmds') = Len(f.cmds) + Len(emitted)
              /\ SubSeq(cmds', 1, Len(f.cmds)) = f.cmds
              /\ \A k \in 1..Len(emitted) : cmds'[Len(f.cmds) + k] = emitted[Len(emitted) + 1 - k]

\* C17: a call of run made inside process has a queue and a state of its
\* own: it neither pushes onto nor pops from the queue of the call that
\* waits, which goes on afterwards with what it had pending plus the
\* follow-ups of the enclosing process call.
C17_NestedRunIndependent ==
    []QueuesApart /\ [][QueueKeptAcrossNesting]_vars

\* A nested call (root n) has executed a follow-up z of its own while the
\* outer call had a command y pending, and y has been executed after it.
C17_Witness ==
    /\ frames = <<>>
    /\ \E n \in 2..Len(parent) :
          /\ parent[n] = 0
          /\ \E z \in 1..Len(parent) :
                /\ parent[z] = n
                /\ ExecPos(z) # 0
                /\ \E y \in 2..(n - 1) : ExecPos(y) > ExecPos(z)

\* The commands emitted so far: the initial one, then the follow-ups of every
\* successful process call, in call order.  Node n is Emitted[n].
RECURSIVE Flatten(_)
Flatten(ss) == IF ss = <<>> THEN <<>> ELSE Head(ss) \o Flatten(Tail(ss))

Emitted ==
    <<InitCmd>> \o
    Flatten([i \in 1..Len(ProcessCalls) |->
                IF ProcessCalls[i].ret.ok THEN ProcessCalls[i].ret.new_cmds ELSE <<>>])

ToArgsCalls == SelectSeq(calls, LAMBDA k : k.fn = "to_args")

\* C18: the queue holds and run pops only the initial command and follow-ups
\* returned by successful process calls of this run: every queued or popped
\* command is one of the emitted ones, emitted by a command executed before,
\* and a failed call adds nothing.
C18_QueueProvenance ==
    LET em == Emitted
        popped == ToArgsCalls
    IN  /\ Len(parent) = Len(em)
        /\ Len(cmds) = Len(tags)
        /\ \A i \in 1..Len(tags) :
              /\ cmds[i] = em[tags[i]]
              /\ tags[i] = 1 \/ ExecPos(parent[tags[i]]) # 0
        /\ \A j \in 1..Len(done) :
              /\ popped[j].cmd = em[done[j]]
              /\ done[j] = 1 \/
                    (ExecPos(parent[done[j]]) # 0 /\ ExecPos(parent[done[j]]) < j)
        /\ popped # <<>> => popped[1].cmd = InitCmd
        /\ \A j \in 1..Len(popped) : popped[j].cmd \in Range(em)

\* A process call has failed on a command that has follow-ups, after an
\* execution, with a command still queued.
C18_Witness ==
    /\ Failed
    /\ result.err.from = "process"
    /\ follow[result.err.cmd] # <<>>
    /\ cmds # <<>>
    /\ Len(done) >= 1

NoDuplicates(s) == \A i, j \in 1..Len(s) : s[i] = s[j] => i = j

RECURSIVE SumLen(_)
SumLen(ss) == IF ss = <<>> THEN 0 ELSE Len(Head(ss)) + SumLen(Tail(ss))

\* C19: no queued command is lost or duplicated: a node is in the queue or
\* executed, never both and never twice, and until a failure every emitted
\* node is one or the other; a successful run has executed every node, so it
\* has made one process call more than follow-ups were emitted.
C19_NothingLostOrDuplicated ==
    /\ NoDuplicates(done)
    /\ NoDuplicates(tags)
    /\ Range(done) \cap Range(tags) = {}
    /\ ~Failed => Range(done) \cup Range(tags) = 1..Len(parent)
    /\ Succeeded =>
          /\ Range(done) = 1..Len(parent)
          /\ Len(ProcessCalls) =
                1 + SumLen([i \in 1..Len(ProcessCalls) |-> ProcessCalls[i].ret.new_cmds])

\* A successful run in which the same command was emitted several times.
C19_Witness ==
    /\ Succeeded
    /\ Len(ProcessCalls) >= 5
    /\ ~NoDuplicates(Executed)

\* The commands still to be executed: the pre-order expansions of the queued
\* commands, from the top of the queue to its bottom.
Remaining == PreOrderAll(rev(cmds))

\* C20: on a finite expansion without failures, at every iteration the
\* commands executed so far followed by the expansions of the queued ones,
\* top to bottom, are the pre-order traversal from the initial command; and
\* an iteration leaves the commands beneath the popped one where they were.
C20_LoopInvariant ==
    /\ []((NoFailure /\ FiniteExpansion) => Executed \o Remaining = PreOrder(InitCmd))
    /\ [][calls' # calls =>
             SubSeq(tags', 1, Len(tags) - 1) = SubSeq(tags, 1, Len(tags) - 1)]_vars

\* In the middle of a finite run: two executions made, two commands queued,
\* the lower of which has follow-ups of its own.
C20_Witness ==
    /\ NoFailure /\ FiniteExpansion
    /\ pc = "loop"
    /\ Len(done) >= 2
    /\ Len(cmds) >= 2
    /\ follow[cmds[1]] # <<>>

====
